---- MODULE Spec2Model ----
(***************************************************************************)
(* The hoots controller (controllers/hoots.js): eight Express handlers     *)
(* over a Mongoose collection of hoots, each hoot holding its comments as  *)
(* embedded sub-documents.                                                 *)
(*                                                                         *)
(* A handler is an async function: it runs synchronously up to an await of *)
(* a database call, and other requests run while it waits.  Each database  *)
(* call is one atomic step on the collection; the synchronous code that    *)
(* follows a call (the null dereference, the ownership check, the edit of  *)
(* the handler's own copy, the response) touches nothing shared and is     *)
(* part of the step of the call it follows.  A handler with one database   *)
(* call is therefore one action, a handler with two (a read, then a write) *)
(* is two actions joined by the request's pc.                              *)
(*                                                                         *)
(* Spec serves the requests of all eight handlers one after another;       *)
(* SpecConc lets the requests on hoots overlap at their awaits.            *)
(*                                                                         *)
(* Not modelled: token verification (router.use(verifyToken) has run, so   *)
(* every request carries a verified req.user), malformed ids, schema       *)
(* validation failures and connection errors.  Ids name well-formed        *)
(* ObjectIds, generated fresh and never reused.                            *)
(***************************************************************************)
EXTENDS Integers, Sequences, FiniteSets, TLC

\* Bounds of the model.
MaxPosts == 2
MaxComments == 3

Users == {"ua", "ub"}
Texts == {"t1", "t2"}
Reqs == {"r1", "r2"}
HootIds == 1..MaxPosts
CommentIds == 1..MaxComments

VARIABLES
  hoots,          \* the collection: hoot id -> stored document
  nextHootId,     \* the next fresh hoot _id
  nextCommentId,  \* the next fresh comment _id
  clock,          \* the time of the latest Hoot.create
  req             \* request slot -> the request's position, inputs, copy and response

vars == <<hoots, nextHootId, nextCommentId, clock, req>>

----------------------------------------------------------------------------
\* Request bodies (req.body).  A JSON body carries a field or does not: besides
\* its text, the body of a hoot may name an author or a comments array (the empty
\* array here), the body of a comment an author.

HootBodies ==
  UNION { { [text |-> t],
            [text |-> t, comments |-> <<>>] } : t \in Texts }
  \cup { [text |-> t, author |-> a] : t \in Texts, a \in Users }

\* The comment update reads req.body.text alone.
TextBodies == { [text |-> t] : t \in Texts }

CommentBodies ==
  { [text |-> t] : t \in Texts } \cup { [text |-> t, author |-> a] : t \in Texts, a \in Users }

\* req.user as the token carries it, the value responses put in place of an author id.
UserDoc(u) == [_id |-> u, username |-> <<"name of", u>>]

IdleReq == [pc |-> "idle"]

JsonNull == [json |-> "null"]

\* res.status(s).json(b) / .send(b): the handler is over.
Respond(q, s, b) == [q EXCEPT !.pc = "done", !.status = s, !.resp = b]

ErrorBody == [json |-> "error"]
ForbiddenBody == [text |-> "You're not allowed to do that!"]
OkBody == [message |-> "Ok"]

----------------------------------------------------------------------------
\* The persistence calls and the synchronous helpers of the handlers.

\* A slip: the caller is the author only of a body that names none.
WithAuthorIfAbsent(body, u) == IF "author" \in DOMAIN body THEN body ELSE body @@ [author |-> u]

\* req.body.author = req.user._id
WithAuthor(body, u) == [f \in DOMAIN body \cup {"author"} |-> IF f = "author" THEN u ELSE body[f]]

\* Hoot.create(body): the document as stored; timestamps give createdAt.
NewHoot(body, now) ==
  [author |-> body.author,
   text |-> body.text,
   comments |-> IF "comments" \in DOMAIN body THEN body.comments ELSE <<>>,
   createdAt |-> now]

\* A stored document as a response shows it, its _id included.
Doc(id, h) == [_id |-> id, author |-> h.author, text |-> h.text,
               comments |-> h.comments, createdAt |-> h.createdAt]

\* .populate('author')
Populate(d) == [d EXCEPT !.author = UserDoc(@)]

\* doc._doc.author = req.user
SetAuthorDoc(d, u) == [d EXCEPT !.author = UserDoc(u)]

\* A request as its handler starts: the verified caller, the route parameters, the body.
Request(op, u, id, cid, body) ==
  [pc |-> "run", op |-> op, user |-> u, hootId |-> id, commentId |-> cid,
   body |-> body, copy |-> JsonNull, status |-> 0, resp |-> JsonNull]

\* A slip: the check without its negation.
IsAuthorInverted(h, u) == h.author # u

\* hoot.author.equals(req.user._id)
IsAuthor(h, u) == h.author = u

\* A slip: the update is given no body.
FindByIdAndUpdateNothing(h, body) == h

\* Hoot.findByIdAndUpdate(id, req.body, { new: true }): every path the body
\* carries is set on the stored document; the others are kept.
FindByIdAndUpdate(h, body) ==
  [author |-> IF "author" \in DOMAIN body THEN body.author ELSE h.author,
   text |-> IF "text" \in DOMAIN body THEN body.text ELSE h.text,
   comments |-> IF "comments" \in DOMAIN body THEN body.comments ELSE h.comments,
   createdAt |-> h.createdAt]

\* Hoot.findByIdAndDelete(id): the collection without the document.
FindByIdAndDelete(coll, id) == [i \in DOMAIN coll \ {id} |-> coll[i]]

\* The sub-document hoot.comments.push(req.body) builds, with its fresh _id.
NewComment(body, cid) == [_id |-> cid, author |-> body.author, text |-> body.text]

\* hoot.comments.push(c)
Push(comments, c) == Append(comments, c)

\* hoot.comments.id(cid) is not null
HasComment(comments, cid) == \E i \in 1..Len(comments) : comments[i]._id = cid

\* A slip: the text goes to the first comment, not to the one looked up.
SetTextOfFirst(comments, cid, text) ==
  [i \in 1..Len(comments) |->
     IF i = 1 THEN [comments[i] EXCEPT !.text = text] ELSE comments[i]]

\* comment = hoot.comments.id(cid); comment.text = text
SetText(comments, cid, text) ==
  [i \in 1..Len(comments) |->
     IF comments[i]._id = cid THEN [comments[i] EXCEPT !.text = text] ELSE comments[i]]

\* A slip: the last comment is moved into the place of the removed one.
RemoveBySwap(comments, cid) ==
  IF \E i \in 1..Len(comments) : comments[i]._id = cid
  THEN LET k == CHOOSE i \in 1..Len(comments) : comments[i]._id = cid
       IN [i \in 1..(Len(comments) - 1) |-> IF i = k THEN comments[Len(comments)] ELSE comments[i]]
  ELSE comments

\* hoot.comments.remove({ _id: cid })
RemoveById(comments, cid) == SelectSeq(comments, LAMBDA c : c._id # cid)

\* hoot.save(): the path the handler modified on its copy, comments, is written
\* to the stored document.  (Spec alone saves: no other request runs between the
\* findById that made the copy and the save.)
Save(stored, copy) == [stored EXCEPT !.comments = copy.comments]

\* Hoot.find({}): the documents of the collection, each once, in some order.
Find(coll) ==
  { s \in [1..Cardinality(DOMAIN coll) -> DOMAIN coll] :
      \A i, j \in DOMAIN s : i # j => s[i] # s[j] }

\* A slip: the sort ascends.
IsSortedAsc(coll, s) ==
  \A i, j \in DOMAIN s : i < j => coll[s[i]].createdAt <= coll[s[j]].createdAt

\* .sort({ createdAt: 'desc' }): s is an order the sort may return (equal keys
\* come in either order).
IsSortedDesc(coll, s) ==
  \A i, j \in DOMAIN s : i < j => coll[s[i]].createdAt >= coll[s[j]].createdAt

\* The createdAt the schema's timestamps may stamp on a new hoot when the latest
\* was stamped t: the clock has moved since, or it has not (a timestamp counts
\* milliseconds, and two hoots may bear the same).
Timestamps(t) == {t, t + 1}

----------------------------------------------------------------------------
Init ==
  /\ hoots = <<>>
  /\ nextHootId = 1
  /\ nextCommentId = 1
  /\ clock = 0
  /\ req = [r \in Reqs |-> IdleReq]

\* The response has gone out; the slot takes the next request.
Reset(r) ==
  /\ req[r].pc = "done"
  /\ req' = [req EXCEPT ![r] = IdleReq]
  /\ UNCHANGED <<hoots, nextHootId, nextCommentId, clock>>

\* router.post('/')
CreatePost(r) ==
  /\ req[r].pc = "idle"
  /\ nextHootId <= MaxPosts
  /\ \E u \in Users, b \in HootBodies, now \in Timestamps(clock) :
       LET id == nextHootId
           hoot == NewHoot(WithAuthor(b, u), now)
       IN /\ hoots' = (id :> hoot) @@ hoots
          /\ clock' = now
          /\ nextHootId' = id + 1
          /\ req' = [req EXCEPT ![r] =
               Respond(Request("create", u, id, 0, b), 201, SetAuthorDoc(Doc(id, hoot), u))]
  /\ UNCHANGED nextCommentId

\* router.get('/')
ListPosts(r) ==
  /\ req[r].pc = "idle"
  /\ \E u \in Users, s \in Find(hoots) :
       /\ IsSortedDesc(hoots, s)
       /\ req' = [req EXCEPT ![r] =
            Respond(Request("list", u, 0, 0, <<>>), 200,
                    [i \in DOMAIN s |-> Populate(Doc(s[i], hoots[s[i]]))])]
  /\ UNCHANGED <<hoots, nextHootId, nextCommentId, clock>>

\* router.get('/:hootId'): findById gives null for an id the collection does not
\* hold, and the handler sends it with status 200.
GetPost(r) ==
  /\ req[r].pc = "idle"
  /\ \E u \in Users, id \in HootIds :
       req' = [req EXCEPT ![r] =
         Respond(Request("get", u, id, 0, <<>>), 200,
                 IF id \in DOMAIN hoots THEN Populate(Doc(id, hoots[id])) ELSE JsonNull)]
  /\ UNCHANGED <<hoots, nextHootId, nextCommentId, clock>>

\* router.put('/:hootId'), to the await of findByIdAndUpdate: findById, then the
\* check.  hoot.author of a null hoot throws, and the catch sends 500.
UpdatePostFind(r) ==
  /\ req[r].pc = "idle"
  /\ \E u \in Users, id \in HootIds, b \in HootBodies :
       LET q == Request("update", u, id, 0, b) IN
       req' = [req EXCEPT ![r] =
         IF id \notin DOMAIN hoots THEN Respond(q, 500, ErrorBody)
         ELSE IF ~IsAuthor(hoots[id], u) THEN Respond(q, 403, ForbiddenBody)
         ELSE [q EXCEPT !.pc = "update", !.copy = hoots[id]]]
  /\ UNCHANGED <<hoots, nextHootId, nextCommentId, clock>>

\* router.put('/:hootId'), from findByIdAndUpdate on: it gives null when the
\* document is gone, and updatedHoot._doc then throws.
UpdatePostWrite(r) ==
  /\ req[r].pc = "update"
  /\ LET q == req[r]
         id == q.hootId
     IN IF id \in DOMAIN hoots
        THEN LET h == FindByIdAndUpdate(hoots[id], q.body) IN
             /\ hoots' = [hoots EXCEPT ![id] = h]
             /\ req' = [req EXCEPT ![r] = Respond(q, 200, SetAuthorDoc(Doc(id, h), q.user))]
        ELSE /\ hoots' = hoots
             /\ req' = [req EXCEPT ![r] = Respond(q, 500, ErrorBody)]
  /\ UNCHANGED <<nextHootId, nextCommentId, clock>>

\* router.delete('/:hootId'), to the await of findByIdAndDelete.
DeletePostFind(r) ==
  /\ req[r].pc = "idle"
  /\ \E u \in Users, id \in HootIds :
       LET q == Request("delete", u, id, 0, <<>>) IN
       req' = [req EXCEPT ![r] =
         IF id \notin DOMAIN hoots THEN Respond(q, 500, ErrorBody)
         ELSE IF ~IsAuthor(hoots[id], u) THEN Respond(q, 403, ForbiddenBody)
         ELSE [q EXCEPT !.pc = "delete", !.copy = hoots[id]]]
  /\ UNCHANGED <<hoots, nextHootId, nextCommentId, clock>>

\* router.delete('/:hootId'), from findByIdAndDelete on: it gives null when the
\* document is gone, and the handler sends it with status 200.
DeletePostWrite(r) ==
  /\ req[r].pc = "delete"
  /\ LET q == req[r]
         id == q.hootId
     IN IF id \in DOMAIN hoots
        THEN /\ hoots' = FindByIdAndDelete(hoots, id)
             /\ req' = [req EXCEPT ![r] = Respond(q, 200, Doc(id, hoots[id]))]
        ELSE /\ hoots' = hoots
             /\ req' = [req EXCEPT ![r] = Respond(q, 200, JsonNull)]
  /\ UNCHANGED <<nextHootId, nextCommentId, clock>>

\* router.post('/:hootId/comments'), to the await of hoot.save(): hoot.comments
\* of a null hoot throws, and the catch sends 500.
AddCommentFind(r) ==
  /\ req[r].pc = "idle"
  /\ \E u \in Users, id \in HootIds, b \in CommentBodies :
       LET q == Request("addComment", u, id, 0, b) IN
       IF id \notin DOMAIN hoots
       THEN /\ req' = [req EXCEPT ![r] = Respond(q, 500, ErrorBody)]
            /\ nextCommentId' = nextCommentId
       ELSE /\ nextCommentId <= MaxComments
            /\ nextCommentId' = nextCommentId + 1
            /\ req' = [req EXCEPT ![r] =
                 [q EXCEPT !.pc = "saveNew",
                           !.copy = [hoots[id] EXCEPT !.comments =
                              Push(@, NewComment(WithAuthor(b, u), nextCommentId))]]]
  /\ UNCHANGED <<hoots, nextHootId, clock>>

\* router.post('/:hootId/comments'), from hoot.save() on: save rejects when the
\* document is gone.
AddCommentSave(r) ==
  /\ req[r].pc = "saveNew"
  /\ LET q == req[r]
         id == q.hootId
         newComment == q.copy.comments[Len(q.copy.comments)]
     IN IF id \in DOMAIN hoots
        THEN /\ hoots' = [hoots EXCEPT ![id] = Save(@, q.copy)]
             /\ req' = [req EXCEPT ![r] = Respond(q, 201, SetAuthorDoc(newComment, q.user))]
        ELSE /\ hoots' = hoots
             /\ req' = [req EXCEPT ![r] = Respond(q, 500, ErrorBody)]
  /\ UNCHANGED <<nextHootId, nextCommentId, clock>>

\* router.put('/:hootId/comments/:commentId'), to the await of hoot.save():
\* hoot.comments of a null hoot and comment.text of a null comment throw.
UpdateCommentFind(r) ==
  /\ req[r].pc = "idle"
  /\ \E u \in Users, id \in HootIds, cid \in CommentIds, b \in TextBodies :
       LET q == Request("updateComment", u, id, cid, b) IN
       req' = [req EXCEPT ![r] =
         IF id \notin DOMAIN hoots THEN Respond(q, 500, ErrorBody)
         ELSE IF ~HasComment(hoots[id].comments, cid) THEN Respond(q, 500, ErrorBody)
         ELSE [q EXCEPT !.pc = "saveText",
                        !.copy = [hoots[id] EXCEPT !.comments = SetText(@, cid, b.text)]]]
  /\ UNCHANGED <<hoots, nextHootId, nextCommentId, clock>>

\* router.put('/:hootId/comments/:commentId'), from hoot.save() on.
UpdateCommentSave(r) ==
  /\ req[r].pc = "saveText"
  /\ LET q == req[r]
         id == q.hootId
     IN IF id \in DOMAIN hoots
        THEN /\ hoots' = [hoots EXCEPT ![id] = Save(@, q.copy)]
             /\ req' = [req EXCEPT ![r] = Respond(q, 200, OkBody)]
        ELSE /\ hoots' = hoots
             /\ req' = [req EXCEPT ![r] = Respond(q, 500, ErrorBody)]
  /\ UNCHANGED <<nextHootId, nextCommentId, clock>>

\* router.delete('/:hootId/comments/:commentId'), to the await of hoot.save():
\* remove of an id the array does not hold removes nothing.
RemoveCommentFind(r) ==
  /\ req[r].pc = "idle"
  /\ \E u \in Users, id \in HootIds, cid \in CommentIds :
       LET q == Request("removeComment", u, id, cid, <<>>) IN
       req' = [req EXCEPT ![r] =
         IF id \notin DOMAIN hoots THEN Respond(q, 500, ErrorBody)
         ELSE [q EXCEPT !.pc = "saveRemoved",
                        !.copy = [hoots[id] EXCEPT !.comments = RemoveById(@, cid)]]]
  /\ UNCHANGED <<hoots, nextHootId, nextCommentId, clock>>

\* router.delete('/:hootId/comments/:commentId'), from hoot.save() on.
RemoveCommentSave(r) ==
  /\ req[r].pc = "saveRemoved"
  /\ LET q == req[r]
         id == q.hootId
     IN IF id \in DOMAIN hoots
        THEN /\ hoots' = [hoots EXCEPT ![id] = Save(@, q.copy)]
             /\ req' = [req EXCEPT ![r] = Respond(q, 200, OkBody)]
        ELSE /\ hoots' = hoots
             /\ req' = [req EXCEPT ![r] = Respond(q, 500, ErrorBody)]
  /\ UNCHANGED <<nextHootId, nextCommentId, clock>>

----------------------------------------------------------------------------
\* A handler's first step: the request arrives and its first database call runs.
Start(r) ==
  \/ CreatePost(r)
  \/ ListPosts(r)
  \/ GetPost(r)
  \/ UpdatePostFind(r)
  \/ DeletePostFind(r)
  \/ AddCommentFind(r)
  \/ UpdateCommentFind(r)
  \/ RemoveCommentFind(r)

\* A handler resumes after its await: its second database call runs.
Resume(r) ==
  \/ UpdatePostWrite(r)
  \/ DeletePostWrite(r)
  \/ AddCommentSave(r)
  \/ UpdateCommentSave(r)
  \/ RemoveCommentSave(r)

\* The requests are served one after another: one slot takes them all.
Next == \E r \in {"r1"} : Start(r) \/ Resume(r) \/ Reset(r)

Spec == Init /\ [][Next]_vars

\* The requests on hoots overlap at their awaits: a request of one slot runs any
\* of its steps between the read and the write of another's.  Each database call
\* of these handlers (create, findById, findByIdAndUpdate, findByIdAndDelete) is
\* one atomic operation on one document.
NextConc ==
  \E r \in Reqs :
    \/ CreatePost(r)
    \/ GetPost(r)
    \/ UpdatePostFind(r)
    \/ UpdatePostWrite(r)
    \/ DeletePostFind(r)
    \/ DeletePostWrite(r)
    \/ Reset(r)

SpecConc == Init /\ [][NextConc]_vars

----------------------------------------------------------------------------
\* The properties of the controller.

\* The step in which request r arrives and its handler makes its first database call.
Arrives(r) == req[r].pc = "idle" /\ req'[r].pc # "idle"

\* The step in which the handler of request r sends its response.
Responds(r) == req[r].pc # "done" /\ req'[r].pc = "done"

\* The ids of a comment sequence, in its order.
Ids(comments) == [i \in 1..Len(comments) |-> comments[i]._id]

C1_Step(r) ==
  (/\ Arrives(r)
   /\ req'[r].op \in {"update", "delete"}
   /\ req'[r].hootId \in DOMAIN hoots
   /\ hoots[req'[r].hootId].author # req'[r].user)
  => /\ req'[r].pc = "done"
     /\ req'[r].status = 403
     /\ hoots' = hoots

\* C1: an UpdatePost or DeletePost of an existing post by a caller who is not
\* its stored author ends in that step with status 403 (Forbidden), and the
\* collection (the post, its author, its comments, every other post) is as it
\* was, so that a GetPost that follows reads the same post.
C1_ForbiddenLeavesPostUnchanged == [][\A r \in Reqs : C1_Step(r)]_vars

\* A non-author's update, with another text in its body, was refused; the post
\* has comments and is not the only post.
C1_Witness ==
  \E r \in Reqs :
    /\ req[r].pc = "done"
    /\ req[r].op = "update"
    /\ req[r].status = 403
    /\ req[r].hootId \in DOMAIN hoots
    /\ hoots[req[r].hootId].author # req[r].user
    /\ hoots[req[r].hootId].text # req[r].body.text
    /\ Len(hoots[req[r].hootId].comments) > 0
    /\ Cardinality(DOMAIN hoots) = 2

C2_Step ==
  \A id \in DOMAIN hoots' :
    IF id \in DOMAIN hoots
    THEN hoots'[id].author = hoots[id].author
    ELSE \E r \in Reqs : /\ Responds(r)
                         /\ req'[r].op = "create"
                         /\ req'[r].hootId = id
                         /\ hoots'[id].author = req'[r].user

\* C2: a post comes into being with the caller of its CreatePost as stored
\* author, whatever author the body names, and no step changes the stored
\* author of an existing post, so that the stored author is always the creator.
C2_AuthorIsCreator == [][C2_Step]_vars

C3_Step(r) ==
  /\ (/\ Arrives(r)
      /\ req'[r].op = "addComment"
      /\ req'[r].hootId \in DOMAIN hoots)
     => req'[r].pc = "saveNew"
  /\ (req[r].pc = "saveNew" /\ Responds(r))
     => LET id == req[r].hootId
            old == hoots[id].comments
            new == hoots'[id].comments
            last == new[Len(new)]
        IN /\ req'[r].status = 201
           /\ Len(new) = Len(old) + 1
           /\ SubSeq(new, 1, Len(old)) = old
           /\ last.author = req[r].user
           /\ last.text = req[r].body.text
           /\ \A i \in 1..Len(old) : old[i]._id # last._id
           /\ req'[r].resp = [last EXCEPT !.author = UserDoc(req[r].user)]

\* C3: an AddComment on an existing post, by its author or by anyone else, is
\* not refused; its save answers 201, leaves the comments that were there as
\* they were and in their order, and puts one new comment after them, whose
\* author is the caller whatever author the body names.
C3_AddCommentAppends == [][\A r \in Reqs : C3_Step(r)]_vars

\* A caller who is not the post's author, with a body naming another author, has
\* added a comment after one that was there; the new one is last and is the caller's.
C3_Witness ==
  \E r \in Reqs :
    /\ req[r].pc = "done"
    /\ req[r].op = "addComment"
    /\ req[r].status = 201
    /\ "author" \in DOMAIN req[r].body
    /\ req[r].body.author # req[r].user
    /\ req[r].hootId \in DOMAIN hoots
    /\ hoots[req[r].hootId].author # req[r].user
    /\ LET cs == hoots[req[r].hootId].comments
       IN /\ Len(cs) >= 2
          /\ cs[Len(cs)].author = req[r].user
          /\ cs[Len(cs)]._id = req[r].resp._id

C4_Step(r) ==
  (/\ req[r].pc = "saveRemoved"
   /\ Responds(r)
   /\ \E i \in 1..Len(hoots[req[r].hootId].comments) :
        hoots[req[r].hootId].comments[i]._id = req[r].commentId)
  => LET id == req[r].hootId
         old == hoots[id].comments
         new == hoots'[id].comments
         k == CHOOSE i \in 1..Len(old) : old[i]._id = req[r].commentId
     IN /\ req'[r].status = 200
        /\ Len(new) = Len(old) - 1
        /\ \A i \in 1..Len(new) : new[i] = IF i < k THEN old[i] ELSE old[i + 1]
        /\ hoots'[id] = [hoots[id] EXCEPT !.comments = new]
        /\ DOMAIN hoots' = DOMAIN hoots
        /\ \A j \in DOMAIN hoots \ {id} : hoots'[j] = hoots[j]

\* C4: a RemoveComment of a comment that is in the post's sequence leaves
\* exactly the former sequence without that comment: the comments before it and
\* after it are there, as they were and in their order, and nothing else of the
\* post, and no other post, is changed.
C4_RemoveCommentKeepsOrder == [][\A r \in Reqs : C4_Step(r)]_vars

\* Of the comments 1, 2, 3 of the only post ever created, 2 was removed: 1, 3 are left.
C4_Witness ==
  \E r \in Reqs :
    /\ req[r].pc = "done"
    /\ req[r].op = "removeComment"
    /\ req[r].status = 200
    /\ req[r].commentId = 2
    /\ nextHootId = 2
    /\ req[r].hootId \in DOMAIN hoots
    /\ Ids(hoots[req[r].hootId].comments) = <<1, 3>>

C5_Step ==
  \A id \in DOMAIN hoots \cap DOMAIN hoots' :
    LET old == hoots[id].comments
        new == hoots'[id].comments
    IN old # new =>
         \E r \in Reqs :
           /\ Responds(r)
           /\ req[r].hootId = id
           /\ \/ /\ req[r].pc = "saveNew"
                 /\ Len(new) = Len(old) + 1
                 /\ SubSeq(new, 1, Len(old)) = old
              \/ /\ req[r].pc = "saveText"
                 /\ Len(new) = Len(old)
                 /\ \A i \in 1..Len(old) :
                      /\ new[i]._id = old[i]._id
                      /\ new[i].author = old[i].author
                      /\ new[i].text # old[i].text => old[i]._id = req[r].commentId
              \/ /\ req[r].pc = "saveRemoved"
                 /\ new = SelectSeq(old, LAMBDA c : c._id # req[r].commentId)

\* C5: the comments of a post that stays are changed only by the save of an
\* AddComment (one comment more, after the others), of an UpdateComment (the
\* text of the named comment, no id and no author) or of a RemoveComment (the
\* named comment gone); no other step, UpdatePost among them, alters, replaces
\* or reorders them.
C5_CommentsChangeOnlyByCommentOps == [][C5_Step]_vars

C6_Step(r) ==
  (/\ Arrives(r)
   /\ \/ /\ req'[r].op \in {"get", "addComment", "updateComment"}
         /\ req'[r].hootId \notin DOMAIN hoots
      \/ /\ req'[r].op = "updateComment"
         /\ req'[r].hootId \in DOMAIN hoots
         /\ \A i \in 1..Len(hoots[req'[r].hootId].comments) :
              hoots[req'[r].hootId].comments[i]._id # req'[r].commentId)
  => /\ req'[r].pc = "done"
     /\ req'[r].status \notin {200, 201}
     /\ hoots' = hoots

\* C6: a GetPost, AddComment or UpdateComment that names a post the collection
\* does not hold, and an UpdateComment that names a comment the post does not
\* hold, ends in a failure response, never in a success one (200, 201), and
\* leaves the collection as it was.
C6_MissingIdFails == [][\A r \in Reqs : C6_Step(r)]_vars

\* The response of a ListPosts holds every stored post once, as stored, with
\* its author expanded.
ListsEachOnce(resp) ==
  /\ Len(resp) = Cardinality(DOMAIN hoots)
  /\ \A id \in DOMAIN hoots :
       \E i \in 1..Len(resp) : resp[i] = Populate(Doc(id, hoots[id]))

\* C7, as claimed: ListPosts returns every existing post once, and of two
\* posts the one created later (ids are given in the order of creation) comes
\* first.
C7_LaterCreatedFirst ==
  [][\A r \in Reqs :
       (Arrives(r) /\ req'[r].op = "list")
       => /\ ListsEachOnce(req'[r].resp)
          /\ \A i, j \in 1..Len(req'[r].resp) :
               i < j => req'[r].resp[i]._id > req'[r].resp[j]._id]_vars

\* C7, amended: ListPosts returns every existing post once, ordered by
\* createdAt descending: of two posts with different createdAt, the one with
\* the later createdAt comes first (posts with the same createdAt come in
\* either order).
C7_ListedByCreatedAtDesc ==
  [][\A r \in Reqs :
       (Arrives(r) /\ req'[r].op = "list")
       => /\ ListsEachOnce(req'[r].resp)
          /\ \A i, j \in 1..Len(req'[r].resp) :
               req'[r].resp[i].createdAt < req'[r].resp[j].createdAt => j < i]_vars

\* Two posts with different createdAt were listed, the later one first, the
\* earlier one with the text an update gave it.
C7_Witness ==
  \E r \in Reqs :
    /\ req[r].pc = "done"
    /\ req[r].op = "list"
    /\ Len(req[r].resp) = 2
    /\ req[r].resp[1].createdAt > req[r].resp[2].createdAt
    /\ req[r].resp[1]._id = 2
    /\ req[r].resp[1].text # req[r].resp[2].text

\* The text of the comment cid in a comment sequence that holds it.
TextOf(comments, cid) ==
  comments[CHOOSE i \in 1..Len(comments) : comments[i]._id = cid].text

C8_Step(r) ==
  /\ (/\ Arrives(r)
      /\ req'[r].op \in {"updateComment", "removeComment"}
      /\ req'[r].hootId \in DOMAIN hoots
      /\ \E i \in 1..Len(hoots[req'[r].hootId].comments) :
           hoots[req'[r].hootId].comments[i]._id = req'[r].commentId)
     => req'[r].pc \in {"saveText", "saveRemoved"}
  /\ (req[r].pc = "saveText" /\ Responds(r))
     => /\ req'[r].status = 200
        /\ TextOf(hoots'[req[r].hootId].comments, req[r].commentId) = req[r].body.text
  /\ (req[r].pc = "saveRemoved" /\ Responds(r))
     => /\ req'[r].status = 200
        /\ \A i \in 1..Len(hoots'[req[r].hootId].comments) :
             hoots'[req[r].hootId].comments[i]._id # req[r].commentId
  /\ (Responds(r) /\ req'[r].status = 403)
     => req'[r].op \in {"update", "delete"}

\* C8: an UpdateComment or RemoveComment of a comment of an existing post is
\* refused to no caller, whoever wrote the comment or the post: it goes on to
\* its save, which answers 200 and leaves the comment with the new text, or
\* gone.  Only UpdatePost and DeletePost answer 403 (Forbidden).
C8_NoOwnershipCheckOnComments == [][\A r \in Reqs : C8_Step(r)]_vars

\* A caller who wrote neither the post nor the comment has given the comment a
\* new text.
C8_Witness ==
  \E r \in Reqs :
    /\ req[r].pc = "done"
    /\ req[r].op = "updateComment"
    /\ req[r].status = 200
    /\ req[r].hootId \in DOMAIN hoots
    /\ hoots[req[r].hootId].author # req[r].user
    /\ \E i \in 1..Len(hoots[req[r].hootId].comments) :
         LET c == hoots[req[r].hootId].comments[i]
         IN /\ c._id = req[r].commentId
            /\ c.author # req[r].user
            /\ c.text = req[r].body.text
            /\ c.text # req[r].copy.text

C9_Step(r) ==
  /\ (/\ Arrives(r)
      /\ req'[r].op = "update"
      /\ req'[r].hootId \in DOMAIN hoots
      /\ hoots[req'[r].hootId].author = req'[r].user)
     => /\ req'[r].pc = "update"
        /\ req'[r].copy = hoots[req'[r].hootId]
        /\ hoots' = hoots
  /\ (/\ req[r].pc = "update"
      /\ Responds(r)
      /\ req[r].hootId \in DOMAIN hoots)
     => /\ req'[r].status = 200
        /\ req'[r].resp.text = req[r].body.text
        /\ hoots'[req[r].hootId].text = req[r].body.text

\* C9: an UpdatePost by the author is a read with its check, then a write, as
\* two steps; the write of a request that passed the check is made whatever
\* was written to the post since its read: it answers 200 with the request's
\* content and stores that content over what is there.  Nothing orders two
\* such requests, and the state of C9_Witness is reached.
C9_UpdateWritesAreNotSerialized == [][\A r \in Reqs : C9_Step(r)]_vars

\* Two updates of one post both read it before either wrote, both answered
\* 200, and the post holds the content of the second writer alone: what the
\* first wrote, in between, is lost.
C9_Witness ==
  \E r1, r2 \in Reqs :
    /\ r1 # r2
    /\ req[r1].pc = "done" /\ req[r2].pc = "done"
    /\ req[r1].op = "update" /\ req[r2].op = "update"
    /\ req[r1].status = 200 /\ req[r2].status = 200
    /\ req[r1].hootId = req[r2].hootId
    /\ req[r1].copy.text = req[r2].copy.text
    /\ req[r1].body.text # req[r1].copy.text
    /\ req[r1].resp.text = req[r1].body.text
    /\ req[r2].body.text # req[r1].body.text
    /\ req[r1].hootId \in DOMAIN hoots
    /\ hoots[req[r1].hootId].text = req[r2].body.text

C10_Step(r) ==
  (/\ req[r].pc \in {"update", "delete"}
   /\ Responds(r)
   /\ hoots' # hoots)
  => /\ req[r].hootId \in DOMAIN hoots
     /\ hoots[req[r].hootId].author = req[r].user

\* C10: the write of an UpdatePost or DeletePost changes or removes a post only
\* when the caller is the post's stored author as that write is made.
C10_WriterIsAuthorAtWrite == [][\A r \in Reqs : C10_Step(r)]_vars

====
